---- MODULE Spec2Model ----
(***************************************************************************)
(* Aspeed AST2400/AST2500 watchdog driver (drivers/watchdog/aspeed_wdt.c). *)
(*                                                                         *)
(* The driver is modelled one register access per step.  A u32 is a record *)
(* [hi, lo] of two 16-bit halves, because the reload counts and the pulse  *)
(* register tags do not fit the model checker's signed 32-bit integers.    *)
(***************************************************************************)
EXTENDS Integers, Sequences, FiniteSets, TLC

(***************************************************************************)
(* Unsigned 32-bit arithmetic of the C code.                               *)
(***************************************************************************)
Half == 65536

U32(n) == [hi |-> n \div Half, lo |-> n % Half]

RECURSIVE BitAnd(_, _)
BitAnd(a, b) ==
    IF a = 0 \/ b = 0 THEN 0
    ELSE (a % 2) * (b % 2) + 2 * BitAnd(a \div 2, b \div 2)

RECURSIVE BitOr(_, _)
BitOr(a, b) ==
    IF a = 0 THEN b
    ELSE IF b = 0 THEN a
    ELSE (IF a % 2 = 1 \/ b % 2 = 1 THEN 1 ELSE 0) + 2 * BitOr(a \div 2, b \div 2)

And32(x, y) == [hi |-> BitAnd(x.hi, y.hi), lo |-> BitAnd(x.lo, y.lo)]

Or32(x, y) == [hi |-> BitOr(x.hi, y.hi), lo |-> BitOr(x.lo, y.lo)]

Not32(x) == [hi |-> (Half - 1) - x.hi, lo |-> (Half - 1) - x.lo]

Add32(x, y) ==
    LET lo == x.lo + y.lo
        hi == x.hi + y.hi + lo \div Half
    IN  [hi |-> hi % Half, lo |-> lo % Half]

\* the 32-bit product of two 16-bit halves, computed without exceeding 2^31
Mul16(a, b) ==
    LET p1 == a * (b \div 256)
        p0 == a * (b % 256)
    IN  Add32([hi |-> (p1 \div 256) % Half, lo |-> (p1 % 256) * 256], U32(p0))

\* u32 * u32, truncated to 32 bits as C's unsigned multiplication is
Mul32(x, y) ==
    LET ll == Mul16(x.lo, y.lo)
        cross == (Mul16(x.hi, y.lo).lo + Mul16(x.lo, y.hi).lo) % Half
    IN  [hi |-> (ll.hi + cross) % Half, lo |-> ll.lo]

RECURSIVE Shl32(_, _)
Shl32(x, n) == IF n = 0 THEN x ELSE Shl32(Add32(x, x), n - 1)

Less32(x, y) == x.hi < y.hi \/ (x.hi = y.hi /\ x.lo < y.lo)

\* the kernel's min() on two unsigned ints
Min32(x, y) == IF Less32(x, y) THEN x ELSE y

(***************************************************************************)
(* Register offsets and bit definitions.                                   *)
(***************************************************************************)
WDT_STATUS == 0
WDT_RELOAD_VALUE == 4
WDT_RESTART == 8
WDT_CTRL == 12
WDT_RESET_WIDTH == 24

Offsets == {WDT_STATUS, WDT_RELOAD_VALUE, WDT_RESTART, WDT_CTRL, WDT_RESET_WIDTH}

WDT_CTRL_RESET_MODE_SOC == Shl32(U32(0), 5)
WDT_CTRL_RESET_MODE_FULL_CHIP == Shl32(U32(1), 5)
\* 0x10 << 5, as the source writes it
WDT_CTRL_RESET_MODE_ARM_CPU == Shl32(U32(16), 5)
WDT_CTRL_1MHZ_CLK == Shl32(U32(1), 4)
WDT_CTRL_WDT_EXT == Shl32(U32(1), 3)
WDT_CTRL_WDT_INTR == Shl32(U32(1), 2)
WDT_CTRL_RESET_SYSTEM == Shl32(U32(1), 1)
WDT_CTRL_ENABLE == Shl32(U32(1), 0)

\* 0xA5 << 24 and friends: the kernel is built with wrapping signed shifts,
\* so the tag byte lands in bits 24..31 of the u32 it is OR-ed into
WDT_ACTIVE_HIGH_MAGIC == Shl32(U32(165), 24)
WDT_ACTIVE_LOW_MAGIC == Shl32(U32(90), 24)
WDT_PUSH_PULL_MAGIC == Shl32(U32(168), 24)
WDT_OPEN_DRAIN_MAGIC == Shl32(U32(138), 24)
WDT_RESET_WIDTH_DURATION == U32(4095)

WDT_RESTART_MAGIC == U32(18261)

WDT_MAX_TIMEOUT_MS == U32(4294967)
WDT_DEFAULT_TIMEOUT == U32(30)
WDT_RATE_1MHZ == U32(1000000)

EINVAL == 22
ENOMEM == 12

(***************************************************************************)
(* Inputs: the hardware description and the register file left by firmware *)
(***************************************************************************)
\* a property of the device node: absent, or present with a value
Absent(v) == [present |-> FALSE, val |-> v]

Present(v) == [present |-> TRUE, val |-> v]

\* aspeed,reset-type: absent, the three known strings, or another string
ResetTypes == {Absent(""), Present("cpu"), Present("soc"), Present("system"),
               Present("none")}

Compatibles == {"aspeed,ast2400-wdt", "aspeed,ast2500-wdt"}

\* aspeed,ext-pulse-duration: absent, or a u32
Durations == {Absent(U32(0)), Present(U32(7)), Present(U32(4095)),
              Present(U32(4096))}

DeviceNodes ==
    [reset_type : ResetTypes,
     external_signal : BOOLEAN,
     compatible : Compatibles,
     ext_push_pull : BOOLEAN,
     ext_active_high : BOOLEAN,
     ext_pulse_duration : Durations]

\* control register as firmware left it: stopped; running from PCLK; running
\* at 1MHz with system reset; stopped with configuration bits
FirmwareCtrl == {U32(0), U32(1), U32(19), U32(18)}

\* pulse register as firmware left it: tag byte and 12-bit duration
FirmwareResetWidth == {U32(0), U32(255), Or32(WDT_ACTIVE_HIGH_MAGIC, U32(2748))}

\* the reload register's reset value
FirmwareReload == U32(66000000)

\* timeouts the watchdog core passes to set_timeout
Timeouts == {U32(1), U32(30), U32(4294), U32(4295), U32(5000)}

\* np once probe has returned and its locals are gone
NoNode == [reset_type |-> Absent(""), external_signal |-> FALSE,
           compatible |-> "", ext_push_pull |-> FALSE,
           ext_active_high |-> FALSE, ext_pulse_duration |-> Absent(U32(0))]

VARIABLES
    pc,       \* the statement the driver is at
    regs,     \* the memory-mapped register file at wdt->base
    ctrl,     \* wdt->ctrl
    wdd,      \* wdt->wdd: timeout, max_hw_heartbeat_ms, WDOG_HW_RUNNING
    np,       \* probe's device node
    reg,      \* probe's local reg
    ret,      \* the value the last handler returned
    count,    \* aspeed_wdt_enable's count
    ret_pc,   \* where aspeed_wdt_enable returns to
    timeout,  \* aspeed_wdt_set_timeout's timeout argument, 0 in other handlers
    log,      \* register accesses of the current handler call, in order
    calls     \* functions entered by the current handler call, in order

vars == <<pc, regs, ctrl, wdd, np, reg, ret, count, ret_pc, timeout, log, calls>>

Access(op, off, val) == [op |-> op, off |-> off, val |-> val]

Init ==
    /\ pc = "probe_alloc"
    /\ regs \in {[o \in Offsets |->
                    CASE o = WDT_CTRL -> c
                      [] o = WDT_RESET_WIDTH -> w
                      [] o = WDT_RELOAD_VALUE -> FirmwareReload
                      [] OTHER -> U32(0)] :
                 c \in FirmwareCtrl, w \in FirmwareResetWidth}
    /\ ctrl = U32(0)
    /\ wdd = [timeout |-> U32(0), max_hw_heartbeat_ms |-> U32(0), hw_running |-> FALSE]
    /\ np \in DeviceNodes
    /\ reg = U32(0)
    /\ ret = 0
    /\ count = U32(0)
    /\ ret_pc = ""
    /\ timeout = U32(0)
    /\ log = <<>>
    /\ calls = <<"probe">>

(***************************************************************************)
(* Register access primitives: each access is appended to the log.         *)
(***************************************************************************)
writel(v, off) ==
    /\ regs' = [regs EXCEPT ![off] = v]
    /\ log' = Append(log, Access("writel", off, v))

readl(off) ==
    /\ log' = Append(log, Access("readl", off, regs[off]))
    /\ UNCHANGED regs

\* the first access of a handler the watchdog core calls: the log starts anew
first_writel(v, off) ==
    /\ regs' = [regs EXCEPT ![off] = v]
    /\ log' = <<Access("writel", off, v)>>

(***************************************************************************)
(* aspeed_wdt_probe                                                        *)
(***************************************************************************)
\* watchdog_init_timeout(wdd, timeout_parm, dev) of the watchdog core: an
\* invalid (zero) parameter leaves the timeout the driver preset
watchdog_init_timeout(preset, timeout_parm) ==
    IF timeout_parm = U32(0) THEN preset ELSE timeout_parm

\* a decoder whose last branch falls back to the system reset
ResetTypeBits_DefaultSystem(reset_type) ==
    IF ~reset_type.present THEN WDT_CTRL_RESET_SYSTEM
    ELSE IF reset_type.val = "cpu" THEN WDT_CTRL_RESET_MODE_ARM_CPU
    ELSE IF reset_type.val = "soc" THEN WDT_CTRL_RESET_MODE_SOC
    ELSE WDT_CTRL_RESET_SYSTEM

\* lines 195-205: the reset-type string decoded into control bits
ResetTypeBits(reset_type) ==
    IF ~reset_type.present THEN WDT_CTRL_RESET_SYSTEM
    ELSE IF reset_type.val = "cpu" THEN WDT_CTRL_RESET_MODE_ARM_CPU
    ELSE IF reset_type.val = "soc" THEN WDT_CTRL_RESET_MODE_SOC
    ELSE IF reset_type.val = "system" THEN WDT_CTRL_RESET_SYSTEM
    ELSE U32(0)

\* lines 206-207
ExternalSignalBits(external_signal) ==
    IF external_signal THEN WDT_CTRL_WDT_EXT ELSE U32(0)

\* a probe that leaves the clock source at PCLK
ProbeCtrl_NoClock(node) ==
    Or32(ResetTypeBits(node.reset_type), ExternalSignalBits(node.external_signal))

\* lines 188-207: wdt->ctrl as probe composes it
ProbeCtrl(node) ==
    Or32(Or32(WDT_CTRL_1MHZ_CLK, ResetTypeBits(node.reset_type)),
         ExternalSignalBits(node.external_signal))

\* errors devm_ioremap_resource can hand back through PTR_ERR
IoremapErrors == {-EINVAL, -ENOMEM}

\* lines 166-173
ProbeAlloc ==
    /\ pc = "probe_alloc"
    /\ \/ /\ ret' = -ENOMEM
          /\ pc' = "probe_return"
       \/ /\ ret' \in IoremapErrors
          /\ pc' = "probe_return"
       \/ /\ ret' = 0
          /\ pc' = "probe_config"
    /\ UNCHANGED <<regs, ctrl, wdd, np, reg, count, ret_pc, timeout, log, calls>>

\* lines 180-207
ProbeConfig ==
    /\ pc = "probe_config"
    /\ wdd' = [timeout |-> watchdog_init_timeout(WDT_DEFAULT_TIMEOUT, U32(0)),
               max_hw_heartbeat_ms |-> WDT_MAX_TIMEOUT_MS,
               hw_running |-> FALSE]
    /\ ctrl' = ProbeCtrl(np)
    /\ pc' = "probe_read_ctrl"
    /\ UNCHANGED <<regs, np, reg, ret, count, ret_pc, timeout, log, calls>>

\* lines 76-80: aspeed_wdt_start entered, about to run aspeed_wdt_enable
CallStart(return_pc) ==
    /\ count' = Mul32(wdd.timeout, WDT_RATE_1MHZ)
    /\ ret_pc' = return_pc
    /\ pc' = "enable_ctrl0"

\* a probe that restarts the watchdog whatever the control register says
ProbeReadCtrl_AlwaysStarts ==
    /\ pc = "probe_read_ctrl"
    /\ readl(WDT_CTRL)
    /\ CallStart("probe_set_running")
    /\ calls' = calls \o <<"start", "enable">>
    /\ UNCHANGED <<ctrl, wdd, np, reg, ret, timeout>>

\* lines 209-216
ProbeReadCtrl ==
    /\ pc = "probe_read_ctrl"
    /\ readl(WDT_CTRL)
    /\ IF And32(regs[WDT_CTRL], WDT_CTRL_ENABLE) # U32(0)
       THEN /\ CallStart("probe_set_running")
            /\ calls' = calls \o <<"start", "enable">>
       ELSE /\ pc' = "probe_compatible"
            /\ UNCHANGED <<count, ret_pc, calls>>
    /\ UNCHANGED <<ctrl, wdd, np, reg, ret, timeout>>

\* line 217
ProbeSetRunning ==
    /\ pc = "probe_set_running"
    /\ wdd' = [wdd EXCEPT !.hw_running = TRUE]
    /\ pc' = "probe_compatible"
    /\ UNCHANGED <<regs, ctrl, np, reg, ret, count, ret_pc, timeout, log, calls>>

\* a probe that shapes the pulse without looking at the variant
ProbeCompatible_AnyVariant ==
    /\ pc = "probe_compatible"
    /\ readl(WDT_RESET_WIDTH)
    /\ reg' = regs[WDT_RESET_WIDTH]
    /\ pc' = "probe_push_pull"
    /\ UNCHANGED <<ctrl, wdd, np, ret, count, ret_pc, timeout, calls>>

\* lines 220-221
ProbeCompatible ==
    /\ pc = "probe_compatible"
    /\ IF np.compatible = "aspeed,ast2500-wdt"
       THEN /\ readl(WDT_RESET_WIDTH)
            /\ reg' = regs[WDT_RESET_WIDTH]
            /\ pc' = "probe_push_pull"
       ELSE /\ pc' = "probe_duration"
            /\ UNCHANGED <<regs, log, reg>>
    /\ UNCHANGED <<ctrl, wdd, np, ret, count, ret_pc, timeout, calls>>

\* a drive-mode write that drops the duration field
PushPullReg_DropsDuration(r, push_pull) ==
    IF push_pull THEN WDT_PUSH_PULL_MAGIC ELSE WDT_OPEN_DRAIN_MAGIC

\* lines 223-227
PushPullReg(r, push_pull) ==
    Or32(And32(r, WDT_RESET_WIDTH_DURATION),
         IF push_pull THEN WDT_PUSH_PULL_MAGIC ELSE WDT_OPEN_DRAIN_MAGIC)

\* lines 231-235
ActiveHighReg(r, active_high) ==
    Or32(And32(r, WDT_RESET_WIDTH_DURATION),
         IF active_high THEN WDT_ACTIVE_HIGH_MAGIC ELSE WDT_ACTIVE_LOW_MAGIC)

\* lines 223-229
ProbePushPull ==
    /\ pc = "probe_push_pull"
    /\ reg' = PushPullReg(reg, np.ext_push_pull)
    /\ writel(reg', WDT_RESET_WIDTH)
    /\ pc' = "probe_active_high"
    /\ UNCHANGED <<ctrl, wdd, np, ret, count, ret_pc, timeout, calls>>

\* lines 231-237
ProbeActiveHigh ==
    /\ pc = "probe_active_high"
    /\ reg' = ActiveHighReg(reg, np.ext_active_high)
    /\ writel(reg', WDT_RESET_WIDTH)
    /\ pc' = "probe_duration"
    /\ UNCHANGED <<ctrl, wdd, np, ret, count, ret_pc, timeout, calls>>

\* a probe that writes whatever duration the device node gives
ProbeDuration_Unchecked ==
    /\ pc = "probe_duration"
    /\ IF np.ext_pulse_duration.present
       THEN /\ writel(np.ext_pulse_duration.val, WDT_RESET_WIDTH)
            /\ pc' = "probe_register"
            /\ UNCHANGED ret
       ELSE /\ pc' = "probe_register"
            /\ UNCHANGED <<regs, log, ret>>
    /\ UNCHANGED <<ctrl, wdd, np, reg, count, ret_pc, timeout, calls>>

\* a probe that writes the duration before it validates it
ProbeDuration_WriteThenCheck ==
    /\ pc = "probe_duration"
    /\ IF np.ext_pulse_duration.present
       THEN /\ writel(np.ext_pulse_duration.val, WDT_RESET_WIDTH)
            /\ IF Less32(WDT_RESET_WIDTH_DURATION, np.ext_pulse_duration.val)
               THEN /\ ret' = -EINVAL
                    /\ pc' = "probe_return"
               ELSE /\ pc' = "probe_register"
                    /\ UNCHANGED ret
       ELSE /\ pc' = "probe_register"
            /\ UNCHANGED <<regs, log, ret>>
    /\ UNCHANGED <<ctrl, wdd, np, reg, count, ret_pc, timeout, calls>>

\* lines 240-251
ProbeDuration ==
    /\ pc = "probe_duration"
    /\ IF np.ext_pulse_duration.present
       THEN IF Less32(WDT_RESET_WIDTH_DURATION, np.ext_pulse_duration.val)
            THEN /\ ret' = -EINVAL
                 /\ pc' = "probe_return"
                 /\ UNCHANGED <<regs, log>>
            ELSE /\ writel(np.ext_pulse_duration.val, WDT_RESET_WIDTH)
                 /\ pc' = "probe_register"
                 /\ UNCHANGED ret
       ELSE /\ pc' = "probe_register"
            /\ UNCHANGED <<regs, log, ret>>
    /\ UNCHANGED <<ctrl, wdd, np, reg, count, ret_pc, timeout, calls>>

\* errors watchdog_register_device can return
RegisterErrors == {-EINVAL, -ENOMEM}

\* lines 253-259
ProbeRegister ==
    /\ pc = "probe_register"
    /\ ret' \in {0} \cup RegisterErrors
    /\ pc' = "probe_return"
    /\ UNCHANGED <<regs, ctrl, wdd, np, reg, count, ret_pc, timeout, log, calls>>

\* lines 168, 173, 243, 256, 261: probe returns ret; its locals are gone
ProbeReturn ==
    /\ pc = "probe_return"
    /\ pc' = IF ret = 0 THEN "idle" ELSE "failed"
    /\ np' = NoNode
    /\ reg' = U32(0)
    /\ UNCHANGED <<regs, ctrl, wdd, ret, count, ret_pc, timeout, log, calls>>

(***************************************************************************)
(* aspeed_wdt_enable, one register write per step                          *)
(***************************************************************************)
\* an enable sequence that does not disable the watchdog first
EnableCtrl0_KeepsEnable ==
    /\ pc = "enable_ctrl0"
    /\ ctrl' = Or32(ctrl, WDT_CTRL_ENABLE)
    /\ writel(ctrl', WDT_CTRL)
    /\ pc' = "enable_reload"
    /\ UNCHANGED <<wdd, np, reg, ret, count, ret_pc, timeout, calls>>

\* lines 68-70
EnableCtrl0 ==
    /\ pc = "enable_ctrl0"
    /\ ctrl' = Or32(ctrl, WDT_CTRL_ENABLE)
    /\ writel(U32(0), WDT_CTRL)
    /\ pc' = "enable_reload"
    /\ UNCHANGED <<wdd, np, reg, ret, count, ret_pc, timeout, calls>>

\* line 71
EnableReload ==
    /\ pc = "enable_reload"
    /\ writel(count, WDT_RELOAD_VALUE)
    /\ pc' = "enable_restart"
    /\ UNCHANGED <<ctrl, wdd, np, reg, ret, count, ret_pc, timeout, calls>>

\* an enable sequence that does not latch the reload value
EnableRestart_Skipped ==
    /\ pc = "enable_restart"
    /\ pc' = "enable_ctrl"
    /\ UNCHANGED <<regs, log, ctrl, wdd, np, reg, ret, count, ret_pc, timeout, calls>>

\* line 72
EnableRestart ==
    /\ pc = "enable_restart"
    /\ writel(WDT_RESTART_MAGIC, WDT_RESTART)
    /\ pc' = "enable_ctrl"
    /\ UNCHANGED <<ctrl, wdd, np, reg, ret, count, ret_pc, timeout, calls>>

\* an enable sequence whose last write leaves the enable flag out
EnableCtrl_NoEnable ==
    /\ pc = "enable_ctrl"
    /\ writel(And32(ctrl, Not32(WDT_CTRL_ENABLE)), WDT_CTRL)
    /\ pc' = ret_pc
    /\ ret_pc' = ""
    /\ UNCHANGED <<ctrl, wdd, np, reg, ret, count, timeout, calls>>

\* lines 73-74: the last write, then back to the caller
EnableCtrl ==
    /\ pc = "enable_ctrl"
    /\ writel(ctrl, WDT_CTRL)
    /\ pc' = ret_pc
    /\ ret_pc' = ""
    /\ UNCHANGED <<ctrl, wdd, np, reg, ret, count, timeout, calls>>

(***************************************************************************)
(* The watchdog_ops handlers.  The watchdog core serialises them, so one   *)
(* is entered only when none is running (pc = "idle").                     *)
(***************************************************************************)
\* lines 76-80
Start ==
    /\ pc = "idle"
    /\ CallStart("idle")
    /\ calls' = <<"start", "enable">>
    /\ log' = <<>>
    /\ timeout' = U32(0)
    /\ UNCHANGED <<regs, ctrl, wdd, np, reg, ret>>

\* a stop that drops the whole cached configuration with the enable flag
Stop_ClearsAll ==
    /\ pc = "idle"
    /\ ctrl' = U32(0)
    /\ first_writel(ctrl', WDT_CTRL)
    /\ calls' = <<"stop">>
    /\ timeout' = U32(0)
    /\ UNCHANGED <<pc, wdd, np, reg, ret, count, ret_pc>>

\* a stop that clears the cached flag and writes the stale value
Stop_StaleWrite ==
    /\ pc = "idle"
    /\ ctrl' = And32(ctrl, Not32(WDT_CTRL_ENABLE))
    /\ first_writel(ctrl, WDT_CTRL)
    /\ calls' = <<"stop">>
    /\ timeout' = U32(0)
    /\ UNCHANGED <<pc, wdd, np, reg, ret, count, ret_pc>>

\* lines 85-93
Stop ==
    /\ pc = "idle"
    /\ ctrl' = And32(ctrl, Not32(WDT_CTRL_ENABLE))
    /\ first_writel(ctrl', WDT_CTRL)
    /\ calls' = <<"stop">>
    /\ timeout' = U32(0)
    /\ UNCHANGED <<pc, wdd, np, reg, ret, count, ret_pc>>

\* a ping that writes the magic to the reload register
Ping_WrongRegister ==
    /\ pc = "idle"
    /\ first_writel(WDT_RESTART_MAGIC, WDT_RELOAD_VALUE)
    /\ calls' = <<"ping">>
    /\ timeout' = U32(0)
    /\ UNCHANGED <<pc, ctrl, wdd, np, reg, ret, count, ret_pc>>

\* lines 95-102
Ping ==
    /\ pc = "idle"
    /\ first_writel(WDT_RESTART_MAGIC, WDT_RESTART)
    /\ calls' = <<"ping">>
    /\ timeout' = U32(0)
    /\ UNCHANGED <<pc, ctrl, wdd, np, reg, ret, count, ret_pc>>

\* line 112
Actual(t, max_hw_heartbeat_ms) == Min32(t, Mul32(max_hw_heartbeat_ms, U32(1000)))

SetTimeoutReload_Unscaled(t, max_hw_heartbeat_ms) ==
    Actual(t, max_hw_heartbeat_ms)

\* lines 112-114: the value set_timeout writes to the reload register
SetTimeoutReload(t, max_hw_heartbeat_ms) ==
    Mul32(Actual(t, max_hw_heartbeat_ms), WDT_RATE_1MHZ)

\* a set_timeout that stores the clamped value, not the request
SetTimeout_StoresActual(t) ==
    /\ pc = "idle"
    /\ timeout' = t
    /\ wdd' = [wdd EXCEPT !.timeout = Min32(t, U32(4294))]
    /\ first_writel(SetTimeoutReload(t, wdd.max_hw_heartbeat_ms), WDT_RELOAD_VALUE)
    /\ calls' = <<"set_timeout">>
    /\ pc' = "set_timeout_restart"
    /\ UNCHANGED <<ctrl, np, reg, ret, count, ret_pc>>

\* lines 104-114
SetTimeout(t) ==
    /\ pc = "idle"
    /\ timeout' = t
    /\ wdd' = [wdd EXCEPT !.timeout = t]
    /\ first_writel(SetTimeoutReload(t, wdd.max_hw_heartbeat_ms), WDT_RELOAD_VALUE)
    /\ calls' = <<"set_timeout">>
    /\ pc' = "set_timeout_restart"
    /\ UNCHANGED <<ctrl, np, reg, ret, count, ret_pc>>

\* a set_timeout that re-arms the watchdog after the restart write
SetTimeoutRestart_Rearm ==
    /\ pc = "set_timeout_restart"
    /\ ctrl' = Or32(ctrl, WDT_CTRL_ENABLE)
    /\ regs' = [regs EXCEPT ![WDT_RESTART] = WDT_RESTART_MAGIC, ![WDT_CTRL] = ctrl']
    /\ log' = log \o <<Access("writel", WDT_RESTART, WDT_RESTART_MAGIC),
                       Access("writel", WDT_CTRL, ctrl')>>
    /\ pc' = "idle"
    /\ UNCHANGED <<wdd, np, reg, ret, count, ret_pc, timeout, calls>>

\* lines 115-117
SetTimeoutRestart ==
    /\ pc = "set_timeout_restart"
    /\ writel(WDT_RESTART_MAGIC, WDT_RESTART)
    /\ pc' = "idle"
    /\ UNCHANGED <<ctrl, wdd, np, reg, ret, count, ret_pc, timeout, calls>>

\* the reboot modes the restart handler is handed as its action argument
RestartActions == {"REBOOT_COLD", "REBOOT_WARM", "REBOOT_HARD"}

\* a count that misses the division by 1000
RestartCount_Unscaled == Mul32(U32(128), WDT_RATE_1MHZ)

\* line 125: 128 * WDT_RATE_1MHZ / 1000, in int arithmetic
RestartCount == U32((128 * 1000000) \div 1000)

\* lines 120-125: action and data are not looked at
Restart(action) ==
    /\ pc = "idle"
    /\ count' = RestartCount
    /\ ret_pc' = "restart_mdelay"
    /\ pc' = "enable_ctrl0"
    /\ calls' = <<"restart", "enable">>
    /\ log' = <<>>
    /\ timeout' = U32(0)
    /\ UNCHANGED <<regs, ctrl, wdd, np, reg, ret>>

\* lines 127-129: the register file is a stub, no reset cuts the delay short
RestartMdelay ==
    /\ pc = "restart_mdelay"
    /\ pc' = "idle"
    /\ UNCHANGED <<regs, ctrl, wdd, np, reg, ret, count, ret_pc, timeout, log, calls>>

\* lines 148-155
Remove ==
    /\ pc = "idle"
    /\ pc' = "removed"
    /\ calls' = <<"remove">>
    /\ log' = <<>>
    /\ timeout' = U32(0)
    /\ UNCHANGED <<regs, ctrl, wdd, np, reg, ret, count, ret_pc>>

Next ==
    \/ ProbeAlloc
    \/ ProbeConfig
    \/ ProbeReadCtrl
    \/ ProbeSetRunning
    \/ ProbeCompatible
    \/ ProbePushPull
    \/ ProbeActiveHigh
    \/ ProbeDuration
    \/ ProbeRegister
    \/ ProbeReturn
    \/ EnableCtrl0
    \/ EnableReload
    \/ EnableRestart
    \/ EnableCtrl
    \/ Start
    \/ Stop
    \/ Ping
    \/ \E t \in Timeouts : SetTimeout(t)
    \/ SetTimeoutRestart
    \/ \E action \in RestartActions : Restart(action)
    \/ RestartMdelay
    \/ Remove

Spec == Init /\ [][Next]_vars

(***************************************************************************)
(* Vocabulary of the properties                                            *)
(***************************************************************************)
Range(q) == {q[i] : i \in 1..Len(q)}

\* the number a small u32 stands for
Value(x) == x.hi * Half + x.lo

\* bit 0 of a control value: the enable flag
EnableFlagSet(v) == v.lo % 2 = 1

\* bit 4 of a control value: the counter runs from the 1MHz clock
ClockIs1MHz(v) == (v.lo \div 16) % 2 = 1

\* v is exactly s * 1,000,000, that is s * 15625 * 64, with no wrap
IsMicroseconds(v, s) == v.lo % 64 = 0 /\ v.hi * 1024 + v.lo \div 64 = s * 15625

\* v is (s * 1,000,000) mod 2^32, that is ((s * 15625) mod 2^26) * 64
IsWrappedMicroseconds(v, s) ==
    LET m == (s * 15625) % 67108864
    IN  v.hi = m \div 1024 /\ v.lo = (m % 1024) * 64

\* the largest whole number of seconds the 32-bit counter holds at 1MHz
MaxTimeoutSeconds == 4294967 \div 1000

MagicWrite == [op |-> "writel", off |-> 8, val |-> [hi |-> 0, lo |-> 18261]]

IsWriteTo(a, off) == a.op = "writel" /\ a.off = off

\* handler fn, called by the watchdog core, has run to its return
Returned(fn) == pc = "idle" /\ Head(calls) = fn

\* probe is running or has returned, and its read of the control register
\* found the enable flag set
Adopting ==
    /\ Head(calls) = "probe"
    /\ \E i \in 1..Len(log) :
          log[i].op = "readl" /\ log[i].off = 12 /\ EnableFlagSet(log[i].val)

\* C1: for t > 4294, set_timeout(t) leaves the clamped maximum, 4294 s in
\* microseconds, in the reload register, and never the wrapped product.
C1_ClampedNotWrapped ==
    (Returned("set_timeout") /\ Value(timeout) > MaxTimeoutSeconds) =>
        /\ IsMicroseconds(regs[WDT_RELOAD_VALUE], MaxTimeoutSeconds)
        /\ ~IsWrappedMicroseconds(regs[WDT_RELOAD_VALUE], Value(timeout))

\* C2: for 1 <= t <= 4294, armed or not, once set_timeout(t) has written the
\* reload register it holds exactly t * 1,000,000 and wdd.timeout is t.
C2_ExactReload ==
    (Head(calls) = "set_timeout" /\ Value(timeout) \in 1..MaxTimeoutSeconds) =>
        /\ IsMicroseconds(regs[WDT_RELOAD_VALUE], Value(timeout))
        /\ wdd.timeout = timeout

C2_Witness ==
    /\ Returned("set_timeout")
    /\ Value(timeout) = MaxTimeoutSeconds
    /\ EnableFlagSet(regs[WDT_CTRL])

\* C3 as stated: once probe has read the enable flag set, the control
\* register has it set in every state up to the end of initialization.
C3_NeverCleared == Adopting => EnableFlagSet(regs[WDT_CTRL])

\* C3 as amended: once probe has read the enable flag set, stop is never
\* entered, the one write that clears the enable flag is the write of 0 that
\* opens the start sequence right after the read, and the control register
\* has the flag set in every state outside that sequence, which ends by
\* setting it again.
C3_ClearedOnlyInsideStart ==
    Adopting =>
        /\ "stop" \notin Range(calls)
        /\ \A i \in 1..Len(log) :
              (IsWriteTo(log[i], 12) /\ ~EnableFlagSet(log[i].val)) =>
                  /\ i = 2
                  /\ log[i].val = [hi |-> 0, lo |-> 0]
                  /\ log[i - 1].op = "readl"
        /\ pc \notin {"enable_reload", "enable_restart", "enable_ctrl"} =>
              EnableFlagSet(regs[WDT_CTRL])
        /\ pc \notin {"enable_ctrl0", "enable_reload", "enable_restart", "enable_ctrl"} =>
              /\ Len(log) >= 5
              /\ IsWriteTo(log[5], 12) /\ EnableFlagSet(log[5].val)

C3_Witness ==
    /\ Adopting
    /\ pc = "probe_return"
    /\ ret = 0
    /\ Len(log) >= 5

\* C4: a successful initialization that found the enable flag set ends with
\* the control register enabled and on the 1MHz clock, whatever firmware had
\* selected, the reload register at 30 s in microseconds, WDOG_HW_RUNNING
\* set, and stop never entered.
C4_AdoptionResult ==
    (Adopting /\ pc = "probe_return" /\ ret = 0) =>
        /\ EnableFlagSet(regs[WDT_CTRL])
        /\ ClockIs1MHz(regs[WDT_CTRL])
        /\ IsMicroseconds(regs[WDT_RELOAD_VALUE], 30)
        /\ wdd.hw_running
        /\ "stop" \notin Range(calls)

\* adoption of a watchdog firmware had left running from PCLK
C4_Witness ==
    /\ Adopting
    /\ pc = "probe_return"
    /\ ret = 0
    /\ log[1].val = [hi |-> 0, lo |-> 1]

\* C5: when start() has returned, the control register has the enable flag
\* set and equals wdt->ctrl, and the reload register holds wdd.timeout in
\* microseconds.
C5_StartResult ==
    Returned("start") =>
        /\ EnableFlagSet(regs[WDT_CTRL])
        /\ regs[WDT_CTRL] = ctrl
        /\ IsMicroseconds(regs[WDT_RELOAD_VALUE], Value(wdd.timeout))

\* C6: a step that ends stop() leaves the enable flag clear in the control
\* register and in wdt->ctrl, and when the handler before it was stop() too
\* it changes no register and not wdt->ctrl.
C6_StopClearsAndIsIdempotent ==
    [][Returned("stop")' =>
          /\ ~EnableFlagSet(regs'[WDT_CTRL])
          /\ ~EnableFlagSet(ctrl')
          /\ Returned("stop") => (regs' = regs /\ ctrl' = ctrl)]_vars

\* stop() has returned on a watchdog that probe had adopted running
C6_Witness ==
    /\ Returned("stop")
    /\ wdd.hw_running
    /\ ~EnableFlagSet(regs[WDT_CTRL])

\* C7: a step that ends ping() has made one register access, the write of
\* 0x4755 to the restart register, and changed neither another register nor
\* wdt->ctrl nor wdd.timeout.
C7_PingWritesOnlyRestart ==
    [][Returned("ping")' =>
          /\ log' = <<MagicWrite>>
          /\ regs' = [regs EXCEPT ![8] = [hi |-> 0, lo |-> 18261]]
          /\ ctrl' = ctrl
          /\ wdd' = wdd]_vars

\* ping() has returned while the watchdog is stopped
C7_Witness ==
    /\ Returned("ping")
    /\ ~EnableFlagSet(regs[WDT_CTRL])
    /\ ~EnableFlagSet(ctrl)

\* C8: no step of set_timeout accesses the control register or changes it
\* or wdt->ctrl, so the enable flag stays as it was, set or clear.
C8_SetTimeoutKeepsControl ==
    [][Head(calls') = "set_timeout" =>
          /\ \A i \in 1..Len(log') : log'[i].off # 12
          /\ regs'[WDT_CTRL] = regs[WDT_CTRL]
          /\ ctrl' = ctrl]_vars

\* set_timeout has returned above the clamp while the watchdog is stopped
C8_Witness ==
    /\ Returned("set_timeout")
    /\ ~EnableFlagSet(regs[WDT_CTRL])
    /\ Value(timeout) > MaxTimeoutSeconds

\* C9: the step after a write to the reload register is the write of 0x4755
\* to the restart register: nothing else is accessed and no handler ends or
\* begins in between.
C9_ReloadThenRestart ==
    [][(log # <<>> /\ IsWriteTo(log[Len(log)], 4)) =>
          log' = Append(log, MagicWrite)]_vars

\* a handler has written the reload register and gone on
C9_Witness ==
    \E i \in 1..Len(log) :
        /\ IsWriteTo(log[i], 4)
        /\ i < Len(log)
        /\ Head(calls) \in {"probe", "restart"}

\* the control bits each reset-type preference decodes to
C10_Expected(reset_type, external_signal) ==
    Or32(Or32(WDT_CTRL_1MHZ_CLK,
              CASE ~reset_type.present -> WDT_CTRL_RESET_SYSTEM
                [] reset_type = Present("system") -> WDT_CTRL_RESET_SYSTEM
                [] reset_type = Present("cpu") -> WDT_CTRL_RESET_MODE_ARM_CPU
                [] OTHER -> WDT_CTRL_RESET_MODE_SOC),
         IF external_signal THEN WDT_CTRL_WDT_EXT ELSE [hi |-> 0, lo |-> 0])

\* C10: once probe has decoded the device node, wdt->ctrl without the enable
\* flag is the 1MHz bit, plus RESET_SYSTEM for an absent preference or
\* "system", the ARM-CPU scope for "cpu", nothing for "soc" and for any other
\* string, plus the external-signal bit exactly when requested; the decoding
\* reports no error whatever the string.
C10_ResetTypeDecoding ==
    (Head(calls) = "probe" /\ pc \notin {"probe_alloc", "probe_config", "idle", "failed"}
        /\ wdd.max_hw_heartbeat_ms # [hi |-> 0, lo |-> 0]) =>
        /\ [ctrl EXCEPT !.lo = ctrl.lo - (ctrl.lo % 2)] =
               C10_Expected(np.reset_type, np.external_signal)
        /\ ClockIs1MHz(ctrl)
        /\ ((ctrl.lo \div 8) % 2 = 1) <=> np.external_signal
        /\ ((ctrl.lo \div 2) % 2 = 1) <=>
               (~np.reset_type.present \/ np.reset_type.val = "system")
        /\ pc = "probe_read_ctrl" => ret = 0

\* initialization succeeded with a reset-type string the driver does not know
C10_Witness ==
    /\ pc = "probe_return"
    /\ ret = 0
    /\ np.reset_type = Present("none")
    /\ np.external_signal

\* C11: whatever the action and whether armed or not, every step of restart
\* leaves wdd.timeout alone, and the step that ends restart, after the
\* delay, leaves the four writes of the start sequence in the log with
\* 128000 written to the reload register, the enable flag set in the
\* control register and in wdt->ctrl, and the return value 0.
C11_RestartResult ==
    [][/\ Head(calls') = "restart" => wdd'.timeout = wdd.timeout
       /\ Returned("restart")' =>
             /\ pc = "restart_mdelay" \/ pc = "idle"
             /\ Len(log') = 4
             /\ log'[2] = [op |-> "writel", off |-> 4, val |-> [hi |-> 1, lo |-> 62464]]
             /\ log'[3] = MagicWrite
             /\ regs'[WDT_RELOAD_VALUE].hi * Half + regs'[WDT_RELOAD_VALUE].lo = 128000
             /\ EnableFlagSet(regs'[WDT_CTRL])
             /\ EnableFlagSet(ctrl')
             /\ ret' = 0]_vars

\* restart has returned on a watchdog that was never armed before, with a
\* timeout other than the default
C11_Witness ==
    /\ Returned("restart")
    /\ ~wdd.hw_running
    /\ Value(wdd.timeout) = 5000
    /\ EnableFlagSet(regs[WDT_CTRL])

\* a handler of the watchdog core is running or has returned
Registered == pc \notin {"failed", "removed"} /\ Head(calls) # "probe"

\* C12 as stated: after any sequence of handler calls wdd.timeout is at
\* least 1 and at most 4294, whatever was passed to set_timeout.
C12_TimeoutBounded ==
    (Registered \/ pc = "idle") =>
        (1 <= Value(wdd.timeout) /\ Value(wdd.timeout) <= MaxTimeoutSeconds)

\* C12 as amended: wdd.timeout is 30 when initialization ends; set_timeout(s)
\* stores s as it is, also above 4294; no step of start, stop, ping or
\* restart changes it; so with every s >= 1 it is at least 1, and it is at
\* most 4294 only while the latest s is.
C12_TimeoutIsLastRequest ==
    [][/\ (pc' = "idle" /\ Head(calls') = "probe") => Value(wdd'.timeout) = 30
       /\ Head(calls') = "set_timeout" =>
             (wdd'.timeout = timeout' /\ timeout' \in Timeouts)
       /\ Head(calls') \in {"start", "stop", "ping", "restart"} =>
             wdd'.timeout = wdd.timeout
       /\ pc' = "idle" => Value(wdd'.timeout) >= 1]_vars

\* start has returned with the timeout a set_timeout(5000) before it stored
C12_Witness ==
    /\ Returned("start")
    /\ Value(wdd.timeout) = 5000

\* the low 12 bits of a pulse register value: the duration field
DurationField(v) == v.lo % 4096

\* a pulse register value made of a tag byte and a duration
Tagged(tag, d) == [hi |-> tag * 256, lo |-> d]

\* C13: on the ast2500, with d the duration field probe read from the
\* pulse register, the first pulse write is 0xA8 (push-pull) or 0x8A
\* (open-drain) in the top byte over d, the second is 0xA5 (active-high) or
\* 0x5A (active-low) over d, and the register then reads back d.
C13_PulseWritesKeepDuration ==
    (Head(calls) = "probe" /\ pc = "probe_duration"
        /\ np.compatible = "aspeed,ast2500-wdt") =>
        LET n == Len(log)
            d == DurationField(log[n - 2].val)
        IN  /\ n >= 3
            /\ log[n - 2].op = "readl" /\ log[n - 2].off = 24
            /\ log[n - 1] = [op |-> "writel", off |-> 24,
                             val |-> Tagged(IF np.ext_push_pull THEN 168 ELSE 138, d)]
            /\ log[n] = [op |-> "writel", off |-> 24,
                         val |-> Tagged(IF np.ext_active_high THEN 165 ELSE 90, d)]
            /\ DurationField(regs[WDT_RESET_WIDTH]) = d

\* both writes done over a duration of 0xABC that firmware had set under
\* another tag
C13_Witness ==
    /\ pc = "probe_duration"
    /\ np.compatible = "aspeed,ast2500-wdt"
    /\ np.ext_push_pull /\ ~np.ext_active_high
    /\ regs[WDT_RESET_WIDTH] = Tagged(90, 2748)

\* probe is past its duration step and has not returned yet
PastDuration == pc = "probe_register" \/ (pc = "probe_return" /\ ctrl # [hi |-> 0, lo |-> 0])

\* C14: with a pulse duration above 4095 probe never reaches registration,
\* never writes that duration to the pulse register and returns -EINVAL;
\* a duration of 0..4095 is the last value written to the pulse register,
\* unscaled, before registration; no handler runs after a failed probe.
C14_DurationValidated ==
    /\ (PastDuration /\ np.ext_pulse_duration.present
            /\ Value(np.ext_pulse_duration.val) > 4095) =>
          /\ pc = "probe_return"
          /\ ret = -22
          /\ \A i \in 1..Len(log) :
                ~(IsWriteTo(log[i], 24) /\ log[i].val = np.ext_pulse_duration.val)
          /\ regs[WDT_RESET_WIDTH] # np.ext_pulse_duration.val
    /\ (PastDuration /\ np.ext_pulse_duration.present
            /\ Value(np.ext_pulse_duration.val) <= 4095) =>
          /\ log[Len(log)] = [op |-> "writel", off |-> 24,
                              val |-> np.ext_pulse_duration.val]
          /\ regs[WDT_RESET_WIDTH] = np.ext_pulse_duration.val
    /\ (pc = "idle" \/ Registered) => ret = 0

\* probe is about to return the error for a duration of 4096
C14_Witness ==
    /\ pc = "probe_return"
    /\ ret = -22
    /\ np.ext_pulse_duration = Present([hi |-> 0, lo |-> 4096])
    /\ ctrl # [hi |-> 0, lo |-> 0]

\* the positions of the log that access the pulse register
PulseAccesses == {i \in 1..Len(log) : log[i].off = 24}

ConfigBits(v) == [v EXCEPT !.lo = v.lo - (v.lo % 2)]

\* C16: once the device is registered no step of start, stop, ping,
\* set_timeout or restart changes a bit of the cached control word other
\* than the enable flag, and start, stop and restart each return with
\* their last register write being the cached control word, configuration
\* bits and current enable flag, to the control register.
C16_ConfigBitsPersist ==
    [][ Head(calls') \in {"start", "stop", "ping", "set_timeout", "restart"} =>
          /\ ConfigBits(ctrl') = ConfigBits(ctrl)
          /\ (pc' = "idle" /\ Head(calls') \in {"start", "stop", "restart"}) =>
                /\ Len(log') > 0
                /\ log'[Len(log')] =
                      [op |-> "writel", off |-> 12, val |-> ctrl']
                /\ regs'[WDT_CTRL] = ctrl' ]_vars

\* a stop has returned on an instance configured with the external signal
\* and ARM-CPU scope: both bits are still cached and were written
C16_Witness ==
    /\ Returned("stop")
    /\ (ctrl.lo \div 8) % 2 = 1
    /\ (ctrl.lo \div 512) % 2 = 1
    /\ regs[WDT_CTRL] = ctrl

\* the 2-bit reset-mode field at bits 5..6 (mask 0x60) of a control word
ResetModeField(v) == (v.lo \div 32) % 4

\* probe has composed the control word and still holds the device node
Decoded ==
    /\ Head(calls) = "probe"
    /\ pc \notin {"probe_alloc", "probe_config", "probe_return"}

\* C17: for every reset-scope preference the decoded control word has no
\* bit above the reset-mode field (bits 0..4 are the flags, bits 5..6 the
\* field), and the field decoded for "cpu" differs from the field decoded
\* for "soc".
C17_ScopeInOneField ==
    Decoded =>
        /\ ctrl.hi = 0 /\ ctrl.lo \div 128 = 0
        /\ np.reset_type = Present("cpu") =>
              ResetModeField(ctrl) #
                  ResetModeField(ProbeCtrl([np EXCEPT !.reset_type = Present("soc")]))

\* C18: start and restart issue exactly four register writes, in this
\* order: the control register with the enable flag clear, the reload
\* value, the restart magic, the control register with the cached word and
\* its enable flag set; the hardware enable flag is clear from the first
\* write until the last and set from the last on.
C18_EnableSequence ==
    Head(calls) \in {"start", "restart"} =>
        LET n == Len(log) IN
        /\ n = CASE pc = "enable_ctrl0" -> 0
                 [] pc = "enable_reload" -> 1
                 [] pc = "enable_restart" -> 2
                 [] pc = "enable_ctrl" -> 3
                 [] OTHER -> 4
        /\ n >= 1 => IsWriteTo(log[1], 12) /\ ~EnableFlagSet(log[1].val)
        /\ n >= 2 => IsWriteTo(log[2], 4) /\ log[2].val = count
        /\ n >= 3 => log[3] = MagicWrite
        /\ n >= 4 => /\ log[4] = [op |-> "writel", off |-> 12, val |-> ctrl]
                     /\ EnableFlagSet(ctrl)
        /\ n \in 1..3 => ~EnableFlagSet(regs[WDT_CTRL])
        /\ n = 4 => EnableFlagSet(regs[WDT_CTRL])

\* restart has run its enable sequence on a watchdog that was running: the
\* reload value is about to be written with the hardware flag clear
C18_Witness ==
    /\ Head(calls) = "restart"
    /\ pc = "enable_reload"
    /\ EnableFlagSet(ctrl)
    /\ ~EnableFlagSet(regs[WDT_CTRL])

\* probe is about to report that the supplied pulse duration is invalid
DurationRejected ==
    /\ pc = "probe_return"
    /\ ret = -22
    /\ ctrl # [hi |-> 0, lo |-> 0]
    /\ np.ext_pulse_duration.present
    /\ Value(np.ext_pulse_duration.val) > 4095

\* the positions of the log that are writes to one of the given offsets
WritesTo(offs) ==
    {i \in 1..Len(log) : log[i].op = "writel" /\ log[i].off \in offs}

\* C19 as stated: when probe fails on an invalid pulse duration no register
\* write has been issued.
C19_NoWriteBeforeFailure ==
    DurationRejected => WritesTo({0, 4, 8, 12, 24}) = {}

\* C19 as amended: when probe fails on an invalid pulse duration the
\* duration has not been written, but the writes that precede the check
\* have: the four writes of the start sequence exactly when the watchdog
\* was found running, and the two tag writes to the pulse register exactly
\* on the ast2500.
C19_OnlyWritesBeforeCheck ==
    DurationRejected =>
        /\ Cardinality(WritesTo({4, 8, 12})) = IF Adopting THEN 4 ELSE 0
        /\ Cardinality(WritesTo({24})) =
              IF np.compatible = "aspeed,ast2500-wdt" THEN 2 ELSE 0
        /\ \A i \in WritesTo({24}) :
              /\ log[i].val # np.ext_pulse_duration.val
              /\ log[i].val.hi >= 256
        /\ WritesTo({0}) = {}

\* an ast2500 found running with a duration of 4096: six writes, then -EINVAL
C19_Witness ==
    /\ DurationRejected
    /\ Adopting
    /\ np.compatible = "aspeed,ast2500-wdt"
    /\ np.ext_pulse_duration = Present([hi |-> 0, lo |-> 4096])
    /\ Cardinality(WritesTo({4, 8, 12, 24})) = 6

\* probe is running or has returned, and its read of the control register
\* found the enable flag clear
FoundStopped ==
    /\ Head(calls) = "probe"
    /\ \E i \in 1..Len(log) :
          log[i].op = "readl" /\ log[i].off = 12 /\ ~EnableFlagSet(log[i].val)

\* C20: a probe that finds the enable flag clear writes none of the
\* control, reload and restart registers, does not mark the device as
\* already running and leaves the hardware flag clear; and no step of ping,
\* set_timeout or stop sets a hardware enable flag that was clear.
C20_StoppedStaysStopped ==
    [][ /\ FoundStopped' =>
              /\ \A i \in 1..Len(log') :
                    log'[i].op = "writel" => log'[i].off \notin {4, 8, 12}
              /\ ~wdd'.hw_running
              /\ ~EnableFlagSet(regs'[WDT_CTRL])
        /\ (~EnableFlagSet(regs[WDT_CTRL])
               /\ Head(calls') \in {"ping", "set_timeout", "stop"}) =>
              ~EnableFlagSet(regs'[WDT_CTRL]) ]_vars

\* a watchdog found stopped and never started since: a set_timeout has
\* written the reload and restart registers and the flag is still clear
C20_Witness ==
    /\ Returned("set_timeout")
    /\ ~wdd.hw_running
    /\ count = [hi |-> 0, lo |-> 0]
    /\ Len(log) = 2
    /\ ~EnableFlagSet(regs[WDT_CTRL])

====
